---------------------------- MODULE Spec2Model ----------------------------
(***************************************************************************)
(* The FX forecasting engines of the repository.                           *)
(*                                                                         *)
(* The repository holds four stand-alone programs that share one design:   *)
(*   "final"     src/aws_fx_app_final.py      model-driven, lightweight    *)
(*   "optimized" src/aws_fx_app_optimized.py  model-driven, full profile   *)
(*   "minimal"   src/aws_fx_minimal_final.py  heuristic, simulated rates   *)
(*   "phase2_1"  src/aws_fx_phase2_1.py       heuristic, API or simulated  *)
(* The variable app says which program is running; it never changes.       *)
(*                                                                         *)
(* Numbers.  The model-driven programs compute on exact rationals          *)
(* [n, d] (d > 0, lowest terms); the results they report are rounded       *)
(* half-even to integers counted in 1/10000 (prices) or 1/100 (per cent),  *)
(* as round(x, 4) and round(x, 2) do.  IEEE-754 rounding of the            *)
(* intermediate products is not represented.  The heuristic programs hold  *)
(* a rate as an integer counted in 1/10000 and a factor (a trend, a random *)
(* variation) as an integer counted in 1/1000000; a product of the two is  *)
(* rounded to the nearest 1/10000.  Indicators are computed exactly from   *)
(* the rates and rounded as the code rounds them.                          *)
(***************************************************************************)
EXTENDS Integers, Sequences, FiniteSets, TLC

VARIABLES app, REQUESTS_AVAILABLE, models, trainCalls, now, last
\* previous: the last forecast of predict_future a caller took away
\* threads: the requests that run predict_future side by side
VARIABLES previous, threads

vars == <<app, REQUESTS_AVAILABLE, models, trainCalls, now, last,
          previous, threads>>

-----------------------------------------------------------------------------
(* Bounds of the model *)

\* longest horizon a request asks for
MaxDays == 2
\* train_model calls in one behaviour
MaxTrain == 2
\* last reading of the wall clock, in ticks
MaxClock == 2
\* ticks of the wall clock in one calendar day
TicksPerDay == 2

-----------------------------------------------------------------------------
(* Exact rational arithmetic *)

Abs(x) == IF x < 0 THEN -x ELSE x

Max(a, b) == IF a >= b THEN a ELSE b

Min(a, b) == IF a <= b THEN a ELSE b

RECURSIVE GCD(_, _)
GCD(a, b) == IF b = 0 THEN a ELSE GCD(b, a % b)

Gcd(a, b) == LET g == GCD(Abs(a), Abs(b)) IN IF g = 0 THEN 1 ELSE g

Rat(n, d) == LET g == Gcd(n, d) IN [n |-> n \div g, d |-> d \div g]

RInt(k) == [n |-> k, d |-> 1]

RAdd(a, b) ==
    LET g == Gcd(a.d, b.d)
    IN  Rat(a.n * (b.d \div g) + b.n * (a.d \div g), (a.d \div g) * b.d)

RNeg(a) == [n |-> -a.n, d |-> a.d]

RSub(a, b) == RAdd(a, RNeg(b))

RMul(a, b) ==
    LET g1 == Gcd(a.n, b.d)
        g2 == Gcd(b.n, a.d)
    IN  Rat((a.n \div g1) * (b.n \div g2), (a.d \div g2) * (b.d \div g1))

\* b # 0
RDiv(a, b) ==
    RMul(a, IF b.n < 0 THEN [n |-> -b.d, d |-> -b.n] ELSE [n |-> b.d, d |-> b.n])

RAbs(a) == [n |-> Abs(a.n), d |-> a.d]

RLe(a, b) ==
    LET g == Gcd(a.d, b.d) IN a.n * (b.d \div g) <= b.n * (a.d \div g)

RLt(a, b) == ~RLe(b, a)

\* round(x, digits) of a rational x >= 0: the integer nearest to x * 10^digits,
\* ties to the even one; one decimal digit at a time
RECURSIVE RoundDigits(_, _, _, _)
RoundDigits(q, r, d, digits) ==
    IF digits = 0
    THEN IF 2 * r > d \/ (2 * r = d /\ q % 2 = 1) THEN q + 1 ELSE q
    ELSE RoundDigits(q * 10 + (r * 10) \div d, (r * 10) % d, d, digits - 1)

\* round(x, digits) as an integer counted in 10^-digits
Round(x, digits) ==
    LET m == RoundDigits(Abs(x.n) \div x.d, Abs(x.n) % x.d, x.d, digits)
    IN  IF x.n < 0 THEN -m ELSE m

-----------------------------------------------------------------------------
(* The model-driven programs: FXPredictor of aws_fx_app_final.py ("final")  *)
(* and of aws_fx_app_optimized.py ("optimized")                             *)

ModelApps == {"final", "optimized"}

\* the symbols a request may name: the form posts any string.  "GBPUSD=X"
\* is a ticker the data provider knows and currency_names does not.
Symbols == {"USDJPY=X", "GBPUSD=X"}

currency_names == [s \in {"USDJPY=X", "EURJPY=X", "EURUSD=X"} |->
                     CASE s = "USDJPY=X" -> "USD/JPY"
                       [] s = "EURJPY=X" -> "EUR/JPY"
                       [] OTHER -> "EUR/USD"]

feature_columns(a) ==
    IF a = "final"
    THEN <<"SMA_5", "SMA_20", "RSI", "Volatility",
           "Close_lag_1", "Close_lag_2", "Close_lag_3">>
    ELSE <<"SMA_5", "SMA_20", "SMA_50", "RSI", "MACD", "MACD_signal",
           "BB_upper", "BB_lower", "Volatility",
           "Close_lag_1", "Close_lag_2", "Close_lag_3", "Close_lag_5",
           "Returns_lag_1", "Returns_lag_2", "Returns_lag_3", "Returns_lag_5">>

\* the latest close the provider reports for a symbol
MarketClose(sym) == IF sym = "USDJPY=X" THEN RInt(150) ELSE Rat(5, 4)

\* one price history: its length, its last close, and the two numbers a fit
\* on it yields, the forest's answer on the last feature row (as a multiple
\* of the last close) and the held-out MAE
History(sym, len, ratio) ==
    [len |-> len, close |-> MarketClose(sym),
     raw |-> RMul(MarketClose(sym), ratio), mae |-> Rat(len, 400)]

\* the price histories ticker.history may return for a symbol: too short for
\* any fit, short ones, and long ones whose forest answers far above and far
\* below the last close
Histories(sym) ==
    {History(sym, 20, Rat(5, 4)), History(sym, 45, Rat(24, 25)),
     History(sym, 60, Rat(107, 100)), History(sym, 100, Rat(5, 4)),
     History(sym, 100, Rat(3, 4))}

\* the answer of the "no data" outcomes
None == [none |-> TRUE]

\* get_fx_data: the history, or None when it is empty or the provider raised
get_fx_data(sym) == {None} \cup Histories(sym)

\* rows lost to indicator warm-up: the widest window (SMA_20, SMA_50) leaves
\* its first window - 1 rows undefined, and dropna removes them
WarmupRows(a) == IF a = "final" THEN 20 - 1 ELSE 50 - 1

\* create_features: the number of rows left after dropna
create_features(a, data) == Max(0, data.len - WarmupRows(a))

\* X = df[feature_columns]: the feature rows, each named by the position its
\* day has in the history
FeatureRows(a, data) ==
    [i \in 1..create_features(a, data) |-> WarmupRows(a) + i]

\* y = df['Close']: for each row, the position of the day whose close is its
\* target
Targets(a, data) ==
    [i \in 1..create_features(a, data) |-> WarmupRows(a) + i]

\* a split at round(len(X) * 0.8)
split_index_rounded(rows) == (rows * 8 + 5) \div 10

\* int(len(X) * 0.8)
split_index(rows) == (rows * 8) \div 10

\* X[:split_index]
X_train(X) == SubSeq(X, 1, split_index(Len(X)))

\* X[split_index:]
X_test(X) == SubSeq(X, split_index(Len(X)) + 1, Len(X))

\* RandomForestRegressor.fit raises on an empty training slice
FitRaises(rows) == split_index(rows) = 0

\* RandomForestRegressor(..., random_state=42, ...)
random_state == 42

\* a forest that is given no seed and draws a fresh one at every fit
ForestSeedUnset(run) == run

\* the seed the forest of a fit is built with
ForestSeed(run) == random_state

\* model.fit(X_train, y_train) and the held-out MAE: the trees are grown from
\* the rows and the seed, so the forest's answer on the last feature row and
\* its MAE are a function of both.  raw and mae of a history are those of
\* seed 42; another seed draws other rows and features and moves both.
FitForest(data, seed) ==
    LET drift == Rat(100 + ((seed - random_state) % 7), 100)
    IN  [raw |-> RMul(data.raw, drift), mae |-> RMul(data.mae, drift)]

\* the entry train_model stores; run tells one fitted model from another and
\* series is the price history it was fitted on
ModelEntry(a, data, run) ==
    [model |-> [run |-> run, raw |-> FitForest(data, ForestSeed(run)).raw],
     features |-> feature_columns(a),
     mae |-> FitForest(data, ForestSeed(run)).mae,
     last_data |-> data.len,
     last_close |-> data.close,
     series |-> data]

\* the locals of train_model once get_fx_data answered a history
TrainingSet(a, data) ==
    [X |-> FeatureRows(a, data), y |-> Targets(a, data),
     X_train |-> X_train(FeatureRows(a, data)),
     X_test |-> X_test(FeatureRows(a, data))]

\* a train_model that stores its entry before it fits
train_model_early_write(a, cache, sym, data, run) ==
        IF data = None
        THEN [ok |-> FALSE, cache |-> cache, rows |-> 0]
        ELSE [ok |-> ~FitRaises(create_features(a, data)),
              cache |-> [s \in DOMAIN cache \cup {sym} |->
                           IF s = sym THEN ModelEntry(a, data, run)
                           ELSE cache[s]],
              rows |-> create_features(a, data)]

\* a train_model that starts the cache afresh
train_model_forgetful(a, cache, sym, data, run) ==
        IF data = None \/ FitRaises(create_features(a, data))
        THEN [ok |-> FALSE, cache |-> cache,
              rows |-> IF data = None THEN 0 ELSE create_features(a, data)]
        ELSE [ok |-> TRUE,
              cache |-> [s \in {sym} |-> ModelEntry(a, data, run)],
              rows |-> create_features(a, data)]

\* a train_model that leaves an entry it finds in place
train_model_keep_first(a, cache, sym, data, run) ==
        IF data = None \/ FitRaises(create_features(a, data))
        THEN [ok |-> FALSE, cache |-> cache,
              rows |-> IF data = None THEN 0 ELSE create_features(a, data)]
        ELSE [ok |-> TRUE,
              cache |-> [s \in DOMAIN cache \cup {sym} |->
                           IF s \in DOMAIN cache THEN cache[s]
                           ELSE ModelEntry(a, data, run)],
              rows |-> create_features(a, data)]

\* train_model(symbol) when get_fx_data answers data: the value returned,
\* the cache afterwards and the rows create_features left
train_model(a, cache, sym, data, run) ==
        IF data = None
        THEN [ok |-> FALSE, cache |-> cache, rows |-> 0]
        ELSE LET rows == create_features(a, data)
             IN  IF FitRaises(rows)
                 THEN [ok |-> FALSE, cache |-> cache, rows |-> rows]
                 ELSE [ok |-> TRUE,
                       cache |-> [s \in DOMAIN cache \cup {sym} |->
                                    IF s = sym THEN ModelEntry(a, data, run)
                                    ELSE cache[s]],
                       rows |-> rows]

\* the ceiling of the clamp: 0.05 in final, 0.1 in optimized
ClampCeiling(a) == IF a = "final" THEN Rat(1, 20) ELSE Rat(1, 10)

\* model.predict(latest_data)[0]
ModelPredict(model) == model.raw

\* a clamp that compares the signed change with the ceiling, and so lets
\* every fall through
ClampedPriceSigned(a, raw, current_close) ==
    LET change_rate == RDiv(RSub(raw, current_close), current_close)
    IN  IF RLt(ClampCeiling(a), change_rate)
        THEN RMul(current_close, RAdd(RInt(1), ClampCeiling(a)))
        ELSE raw

\* the clamp of one step: the raw price, or current_close * (1 +- ceiling)
ClampedPrice(a, raw, current_close) ==
    LET change_rate == RDiv(RSub(raw, current_close), current_close)
    IN  IF RLt(ClampCeiling(a), RAbs(change_rate))
        THEN LET capped == IF RLt(RInt(0), change_rate)
                           THEN ClampCeiling(a) ELSE RNeg(ClampCeiling(a))
             IN  RMul(current_close, RAdd(RInt(1), capped))
        ELSE raw

\* a row built from the feature names of the lightweight profile, whatever
\* the entry holds
latest_data_configured(entry) ==
    [names |-> feature_columns("final"), row |-> entry.last_data]

\* features = model_info['features'];
\* latest_data = model_info['last_data'][features]: the row handed to
\* model.predict, as the names of its columns and the row they are read from
latest_data(entry) ==
    [names |-> entry.features, row |-> entry.last_data]

\* changes reported against the last close in both programs
ReportBaseOriginal(a, entry, current_close) == entry.last_close

\* the price the changes of a step are reported against: the last close in
\* final, the rolling current_close in optimized
ReportBase(a, entry, current_close) ==
    IF a = "final" THEN entry.last_close ELSE current_close

\* the date a step reports: (now + timedelta(days = day)) as year-month-day
TargetDate(clock, day) == (clock + day * TicksPerDay) \div TicksPerDay

\* one pass of the loop body of predict_future
PredictionStep(a, entry, current_close, day, clock) ==
    LET pred_price == ClampedPrice(a, ModelPredict(entry.model), current_close)
        base == ReportBase(a, entry, current_close)
    IN  [date |-> TargetDate(clock, day),
         day |-> day,
         predicted_price |-> Round(pred_price, 4),
         change |-> Round(RSub(pred_price, base), 4),
         change_rate |-> Round(RMul(RDiv(RSub(pred_price, base), base), RInt(100)), 2),
         pred_price |-> pred_price,
         current_close |-> current_close,
         latest_data |-> latest_data(entry)]

\* a loop over range(1, days), one step short
RECURSIVE PredictionLoopShort(_, _, _, _, _, _)
PredictionLoopShort(a, entry, current_close, day, days, reads) ==
    IF day >= days
    THEN << >>
    ELSE LET step == PredictionStep(a, entry, current_close, day, reads[day])
         IN  <<step>> \o PredictionLoopShort(a, entry,
                                             IF a = "optimized"
                                             THEN step.pred_price
                                             ELSE current_close,
                                             day + 1, days, reads)

\* a loop that clamps every step against the last close
RECURSIVE PredictionLoopFixed(_, _, _, _, _, _)
PredictionLoopFixed(a, entry, current_close, day, days, reads) ==
    IF day >= days + 1
    THEN << >>
    ELSE LET step == PredictionStep(a, entry, current_close, day, reads[day])
         IN  <<step>> \o PredictionLoopFixed(a, entry, current_close,
                                             day + 1, days, reads)

\* the loop "for day in range(1, days + 1)": the predictions from day on
RECURSIVE PredictionLoop(_, _, _, _, _, _)
PredictionLoop(a, entry, current_close, day, days, reads) ==
    IF day >= days + 1
    THEN << >>
    ELSE LET step == PredictionStep(a, entry, current_close, day, reads[day])
         IN  <<step>> \o PredictionLoop(a, entry,
                                        IF a = "optimized" THEN step.pred_price
                                        ELSE current_close,
                                        day + 1, days, reads)

\* predict_future after the cache lookup: the forecast, or None when the
\* lookup of currency_names raises KeyError
ForecastFrom(a, entry, sym, days, reads) ==
    LET predictions == PredictionLoop(a, entry, entry.last_close, 1, days, reads)
    IN  IF sym \notin DOMAIN currency_names
        THEN None
        ELSE [symbol |-> sym,
              currency_name |-> currency_names[sym],
              current_price |-> Round(entry.last_close, 4),
              mae |-> Round(entry.mae, 4),
              predictions |-> predictions]

\* a lookup that never finds the cached model
AlwaysTrains(cache, sym) == TRUE

\* whether predict_future calls train_model first
NeedsTraining(cache, sym) == sym \notin DOMAIN cache

\* the readings datetime.now() may give during a call of `days` steps that
\* starts at clock: one per step, never going back
ClockReads(clock, days) ==
    {r \in [1..Max(days, 0) -> clock..MaxClock] :
        \A i \in 1..Max(days, 0) - 1 : r[i] <= r[i + 1]}

LastRead(clock, days, reads) == IF days >= 1 THEN reads[days] ELSE clock

-----------------------------------------------------------------------------
(* Fixed-point arithmetic of the heuristic programs *)

\* 1.0 as a factor
One == 1000 * 1000

\* x * f / 1000000 rounded to the nearest integer, for x, f >= 0, without
\* leaving 32 bits: both are split at their thousands
MulMicro(x, f) ==
    LET x1 == x \div 1000
        x0 == x % 1000
        f1 == f \div 1000
        f0 == f % 1000
    IN  x1 * f1 + (x1 * f0 + x0 * f1 + (x0 * f0 + 500000) \div 1000) \div 1000

\* 1 / f as a factor, f > 0
RecipMicro(f) ==
    LET q == 1000000000 \div f
        r == 1000000000 % f
    IN  q * 1000 + (r * 1000) \div f

\* f ** k for an integer k, by repeated squaring
RECURSIVE PowMicro(_, _)
PowMicro(f, k) ==
    IF k = 0 THEN One
    ELSE IF k < 0 THEN RecipMicro(PowMicro(f, -k))
    ELSE LET half == PowMicro(f, k \div 2)
         IN  IF k % 2 = 0 THEN MulMicro(half, half)
             ELSE MulMicro(MulMicro(half, half), f)

RECURSIVE SumSeq(_)
SumSeq(s) == IF s = << >> THEN 0 ELSE Head(s) + SumSeq(Tail(s))

\* s[-k:]
LastK(s, k) == IF Len(s) <= k THEN s ELSE SubSeq(s, Len(s) - k + 1, Len(s))

-----------------------------------------------------------------------------
(* The heuristic programs: FXPredictor of aws_fx_minimal_final.py           *)
(* ("minimal") and FXDataProvider, FXPredictor of aws_fx_phase2_1.py        *)
(* ("phase2_1")                                                             *)

HeuristicApps == {"minimal", "phase2_1"}

\* the pairs a request may name: the query string is passed on unchecked
Pairs == {"USD/JPY", "EUR/USD", "GBP/USD"}

\* base_rates and fallback_rates, with the default 100.0 of .get(pair, 100.0)
base_rates(pair) ==
    CASE pair = "USD/JPY" -> 1500000
      [] pair = "EUR/JPY" -> 1600000
      [] pair = "EUR/USD" -> 10800
      [] OTHER -> 1000000

\* _get_simulated_rate, and get_current_rate of minimal:
\* round(base * (1 + variation), 4)
SimulatedRate(pair, variation) == MulMicro(base_rates(pair), One + variation)

\* the quotient without its guard: a zero average loss raises
RelativeStrengthUnguarded(avg_gain, avg_loss) ==
    IF avg_loss.n # 0
    THEN [raised |-> FALSE, value |-> RDiv(avg_gain, avg_loss)]
    ELSE [raised |-> TRUE, value |-> RInt(1)]

\* rs = avg_gain / avg_loss if avg_loss != 0 else 1
RelativeStrength(avg_gain, avg_loss) ==
    IF avg_loss.n # 0
    THEN [raised |-> FALSE, value |-> RDiv(avg_gain, avg_loss)]
    ELSE [raised |-> FALSE, value |-> RInt(1)]

\* calculate_technical_indicators.  rates are counted in 1/unit (the floats
\* the code is handed are not rounded); the result gives ma5 and ma10 in
\* 1/10000 and rsi in 1/100, as round(.., 4) and round(.., 2) leave them.
\* raised tells that a division met a zero divisor.  avg_gain, avg_loss and
\* rs are the locals of the call, kept beside the result.
calculate_technical_indicators(rates0, unit) ==
    LET rates == IF Len(rates0) < 5
                 THEN [i \in 1..5 |-> base_rates("USD/JPY") * (unit \div 10000)]
                 ELSE rates0
        ma5 == Rat(SumSeq(LastK(rates, 5)), 5 * unit)
        len10 == Min(10, Len(rates))
        change == [i \in 1..Len(rates) - 1 |-> rates[i + 1] - rates[i]]
        gains == [i \in 1..Len(rates) - 1 |->
                    IF change[i] > 0 THEN change[i] ELSE 0]
        losses == [i \in 1..Len(rates) - 1 |->
                     IF change[i] > 0 THEN 0 ELSE Abs(change[i])]
        len14 == Min(14, Len(gains))
        avg_gain == IF gains # << >>
                    THEN Rat(SumSeq(LastK(gains, 14)), Max(len14, 1) * unit)
                    ELSE Rat(1, 100)
        avg_loss == IF losses # << >>
                    THEN Rat(SumSeq(LastK(losses, 14)), Max(len14, 1) * unit)
                    ELSE Rat(1, 100)
        rs == RelativeStrength(avg_gain, avg_loss)
        one_rs == RAdd(RInt(1), rs.value)
    IN  IF len10 = 0 \/ (gains # << >> /\ len14 = 0) \/ rs.raised \/ one_rs.n = 0
        THEN [raised |-> TRUE, ma5 |-> 0, ma10 |-> 0, rsi |-> 0,
              avg_gain |-> avg_gain, avg_loss |-> avg_loss, rs |-> rs.value]
        ELSE [raised |-> FALSE,
              ma5 |-> Round(ma5, 4),
              ma10 |-> Round(Rat(SumSeq(LastK(rates, 10)), len10 * unit), 4),
              rsi |-> Round(RSub(RInt(100), RDiv(RInt(100), one_rs)), 2),
              avg_gain |-> avg_gain, avg_loss |-> avg_loss, rs |-> rs.value]

\* d.get(key, default)
DictGet(d, key, default) == IF key \in DOMAIN d THEN d[key] ELSE default

\* _get_simulated_rate
_get_simulated_rate(pair, variation, clock) ==
    [rate |-> SimulatedRate(pair, variation),
     source |-> "Simulated",
     timestamp |-> clock,
     base_currency |-> "USD"]

\* a value of the payload is a number, or a text such as [text |-> "n/a"]
Numeric(v) == DOMAIN v = {"n", "d"}

\* the rate _parse_exchange_rate_api computes from the payload, before
\* rounding; raised when it divides by a zero rate, or divides or rounds
\* what is not a number
ParsedRate(data, pair) ==
    LET rates == DictGet(data, "rates", << >>)
        JPY == DictGet(rates, "JPY", RInt(150))
        EUR == DictGet(rates, "EUR", Rat(85, 100))
        failed == [raised |-> TRUE, rate |-> RInt(0)]
    IN  CASE pair = "USD/JPY" ->
                IF ~Numeric(JPY) THEN failed
                ELSE [raised |-> FALSE, rate |-> JPY]
          [] pair = "EUR/JPY" ->
                IF ~Numeric(JPY) \/ ~Numeric(EUR) THEN failed
                ELSE IF EUR.n = 0 THEN failed
                ELSE [raised |-> FALSE, rate |-> RDiv(JPY, EUR)]
          [] pair = "EUR/USD" ->
                IF ~Numeric(EUR) THEN failed
                ELSE IF EUR.n = 0 THEN failed
                ELSE [raised |-> FALSE, rate |-> RDiv(RInt(1), EUR)]
          [] OTHER ->
                [raised |-> FALSE, rate |-> Rat(base_rates(pair), 10000)]

\* _parse_exchange_rate_api
_parse_exchange_rate_api(data, pair, variation, clock) ==
    LET parsed == ParsedRate(data, pair)
    IN  IF parsed.raised
        THEN _get_simulated_rate(pair, variation, clock)
        ELSE [rate |-> Round(parsed.rate, 4),
              source |-> "API",
              timestamp |-> clock,
              base_currency |-> DictGet(data, "base", "USD")]

\* what requests.get and response.json() may give: an exception, a status
\* other than 200, a body that is no JSON, or a payload: one with rates,
\* one with rates of zero, one with texts for rates, one without rates
Payloads ==
    {[rates |-> ("JPY" :> Rat(299, 2)) @@ ("EUR" :> Rat(23, 25)), base |-> "USD"],
     [rates |-> ("JPY" :> RInt(0)) @@ ("EUR" :> RInt(0)), base |-> "USD"],
     [rates |-> ("JPY" :> [text |-> "n/a"]) @@ ("EUR" :> [text |-> "n/a"]),
      base |-> "USD"],
     [base |-> "USD"]}

Responses ==
    {[kind |-> "exception"], [kind |-> "status"], [kind |-> "unparsable"]}
        \cup {[kind |-> "payload", data |-> d] : d \in Payloads}

\* get_real_fx_rate
get_real_fx_rate(requests, pair, response, variation, clock) ==
    IF ~requests
    THEN _get_simulated_rate(pair, variation, clock)
    ELSE IF response.kind = "payload"
         THEN _parse_exchange_rate_api(response.data, pair, variation, clock)
         ELSE _get_simulated_rate(pair, variation, clock)

\* get_current_rate: the rate record.  minimal returns the bare rate of
\* round(base * (1 + variation), 4); phase2_1 asks the data provider.
get_current_rate(a, requests, pair, response, variation, clock) ==
    IF a = "minimal"
    THEN [rate |-> SimulatedRate(pair, variation)]
    ELSE get_real_fx_rate(requests, pair, response, variation, clock)

\* the simulated history of predict_rate has 30 rates
HistLen == 30

\* the runs of random.uniform(-0.01, 0.01) the history is built from, by the
\* shape they give it; a variation is counted in 1/1000000
Shapes == {"flat", "rise", "fall", "overbought", "rebound"}

HistoryVariation(shape, i) ==
    CASE shape = "flat" -> 0
      [] shape = "rise" -> 2500
      [] shape = "fall" -> -2500
      [] shape = "overbought" -> IF i = 25 THEN -2500 ELSE 10000
      [] OTHER -> IF i \in 17..20 THEN -10000
                  ELSE IF i \in 27..30 THEN 2500 ELSE 0

\* the loop "for i in range(30, 0, -1)": the rates from the i-th on
RECURSIVE HistoricalRates(_, _, _)
HistoricalRates(base_rate, shape, i) ==
    IF i > HistLen THEN << >>
    ELSE LET rate == MulMicro(base_rate, One + HistoryVariation(shape, i))
         IN  <<rate>> \o HistoricalRates(rate, shape, i + 1)

\* a trend that takes equal averages for a rise
trend_factor_biased(indicators) ==
    LET by_ma == IF indicators.ma5 >= indicators.ma10 THEN 1001000 ELSE 999000
    IN  IF indicators.rsi > 7000 THEN MulMicro(by_ma, 998000)
        ELSE IF indicators.rsi < 3000 THEN MulMicro(by_ma, 1002000)
        ELSE by_ma

\* trend_factor of predict_rate, as a factor
trend_factor(indicators) ==
    LET by_ma == IF indicators.ma5 > indicators.ma10 THEN 1001000
                 ELSE IF indicators.ma5 < indicators.ma10 THEN 999000
                 ELSE One
    IN  IF indicators.rsi > 7000 THEN MulMicro(by_ma, 998000)
        ELSE IF indicators.rsi < 3000 THEN MulMicro(by_ma, 1002000)
        ELSE by_ma

\* the confidence without its floor
ConfidenceNoFloor(days_ahead) == 85 - (days_ahead * 2)

\* confidence = max(60, 85 - (days_ahead * 2))
Confidence(days_ahead) == Max(60, 85 - (days_ahead * 2))

\* predict_rate after get_current_rate answered current: the record it
\* returns, or raised when a division meets zero.  noise is the draw of
\* random.uniform(-0.005, 0.005), a factor.  historical_rates, trend_factor
\* and volatility are the locals of the call, kept beside the record.
predict_rate(a, current, days_ahead, shape, noise) ==
    LET current_rate == current.rate
        historical_rates == HistoricalRates(current_rate, shape, 1)
        indicators == calculate_technical_indicators(historical_rates, 10000)
        \* noise * uncertainty_factor, uncertainty_factor = 1 + days_ahead * 0.002
        volatility == noise + (noise * (days_ahead * 2000)) \div One
        predicted_rate ==
            MulMicro(MulMicro(current_rate,
                              PowMicro(trend_factor(indicators), days_ahead)),
                     One + volatility)
    IN  IF indicators.raised \/ current_rate = 0
        THEN [raised |-> TRUE]
        ELSE [raised |-> FALSE,
              current_rate |-> current_rate,
              predicted_rate |-> predicted_rate,
              change |-> predicted_rate - current_rate,
              change_percent |->
                  Round(Rat((predicted_rate - current_rate) * 100, current_rate), 2),
              confidence |-> Confidence(days_ahead),
              indicators |-> indicators,
              days_ahead |-> days_ahead,
              historical_rates |-> historical_rates,
              trend_factor |-> trend_factor(indicators),
              volatility |-> volatility]
             @@ (IF a = "phase2_1"
                 THEN [current_data_source |-> current.source,
                       data_timestamp |-> current.timestamp]
                 ELSE << >>)

-----------------------------------------------------------------------------
(* What the callers and the environment may supply *)

\* the horizons a caller passes to predict_future and predict_multi_day
Horizons == -1..MaxDays

\* a horizon far in the past, one past the point where the confidence
\* reaches its floor, and a long one
BackDays == 8

FloorDays == 13

LongDays == 100

\* the days_ahead a caller passes to predict_rate
DaysAhead == Horizons \cup {-BackDays, FloorDays, LongDays}

\* the random draws of one predict_rate call: the variation of the simulated
\* current rate, the shape of the simulated history, the noise of the
\* prediction
Draw(variation, shape, noise) ==
    [variation |-> variation, shape |-> shape, noise |-> noise]

Draws ==
    {Draw(-20000, "flat", 0), Draw(20000, "flat", 5000), Draw(20000, "rise", 0),
     Draw(20000, "rise", 5000), Draw(-20000, "fall", -5000),
     Draw(20000, "overbought", -5000), Draw(20000, "rebound", 5000)}

\* the draws of the steps of a multi-day forecast
MultiDraws == {Draw(-20000, "flat", 0), Draw(20000, "rebound", 5000)}

\* the answers of the provider during a multi-day forecast
MultiResponses ==
    {[kind |-> "exception"],
     [kind |-> "payload",
      data |-> [rates |-> ("JPY" :> Rat(299, 2)) @@ ("EUR" :> Rat(23, 25)),
                base |-> "USD"]]}

\* the answers that matter to the running program: without the HTTP library
\* no request is made
ResponsesOf(a, requests, all) ==
    IF a = "phase2_1" /\ requests THEN all ELSE {[kind |-> "exception"]}

\* what last holds between calls
NoCall == [op |-> "none"]

-----------------------------------------------------------------------------
(* The operations *)

\* a direct call train_model(sym); replaced is the entry the cache held for
\* sym before the call
TrainModel(sym) ==
    /\ app \in ModelApps
    /\ last = NoCall
    /\ trainCalls < MaxTrain
    /\ \E data \in get_fx_data(sym) :
         LET t == train_model(app, models, sym, data, trainCalls + 1)
         IN  /\ models' = t.cache
             /\ last' = [op |-> "train_model", symbol |-> sym,
                         fetched |-> data # None, rows |-> t.rows,
                         cached |-> sym \in DOMAIN models,
                         replaced |-> IF sym \in DOMAIN models
                                      THEN models[sym] ELSE None,
                         training |-> IF data = None THEN None
                                      ELSE TrainingSet(app, data),
                         result |-> t.ok]
    /\ trainCalls' = trainCalls + 1
    /\ UNCHANGED <<previous, threads, app, REQUESTS_AVAILABLE, now>>

\* predict_future(sym, days) on a symbol with no cached model: it trains first
PredictFutureMiss(sym, days) ==
    /\ app \in ModelApps
    /\ last = NoCall
    /\ NeedsTraining(models, sym)
    /\ trainCalls < MaxTrain
    /\ \E data \in get_fx_data(sym) :
         LET t == train_model(app, models, sym, data, trainCalls + 1)
         IN  /\ models' = t.cache
             /\ IF ~t.ok
                THEN /\ last' = [op |-> "predict_future", symbol |-> sym,
                                 days |-> days, hit |-> FALSE,
                                 fetched |-> data # None, rows |-> t.rows,
                                 run |-> 0, result |-> None]
                     /\ now' = now
                ELSE \E reads \in ClockReads(now, days) :
                       /\ last' = [op |-> "predict_future", symbol |-> sym,
                                   days |-> days, hit |-> FALSE,
                                   fetched |-> TRUE, rows |-> t.rows,
                                   run |-> t.cache[sym].model.run,
                                   result |-> ForecastFrom(app, t.cache[sym],
                                                           sym, days, reads)]
                       /\ now' = LastRead(now, days, reads)
    /\ trainCalls' = trainCalls + 1
    /\ UNCHANGED <<previous, threads, app, REQUESTS_AVAILABLE>>

\* a predict_future that rolls the last close of the cached entry forward to
\* its last predicted price
PredictFutureHitRolling(sym, days) ==
    /\ app \in ModelApps
    /\ last = NoCall
    /\ ~NeedsTraining(models, sym)
    /\ \E reads \in ClockReads(now, days) :
         LET predictions == PredictionLoop(app, models[sym],
                                           models[sym].last_close, 1, days, reads)
         IN  /\ last' = [op |-> "predict_future", symbol |-> sym,
                         days |-> days, hit |-> TRUE,
                         fetched |-> FALSE, rows |-> 0,
                         run |-> models[sym].model.run,
                         result |-> ForecastFrom(app, models[sym], sym, days,
                                                 reads)]
             /\ models' = IF predictions = << >> THEN models
                          ELSE [models EXCEPT ![sym].last_close =
                                    predictions[Len(predictions)].pred_price]
             /\ now' = LastRead(now, days, reads)
    /\ UNCHANGED <<previous, threads, app, REQUESTS_AVAILABLE, trainCalls>>

\* predict_future(sym, days) on a symbol whose model is cached
PredictFutureHit(sym, days) ==
    /\ app \in ModelApps
    /\ last = NoCall
    /\ ~NeedsTraining(models, sym)
    /\ \E reads \in ClockReads(now, days) :
         /\ last' = [op |-> "predict_future", symbol |-> sym,
                     days |-> days, hit |-> TRUE,
                     fetched |-> FALSE, rows |-> 0,
                     run |-> models[sym].model.run,
                     result |-> ForecastFrom(app, models[sym], sym, days, reads)]
         /\ now' = LastRead(now, days, reads)
    /\ UNCHANGED <<previous, threads, app, REQUESTS_AVAILABLE, models, trainCalls>>

\* predict_rate(pair, days_ahead)
PredictRate(pair, days_ahead) ==
    /\ app \in HeuristicApps
    /\ last = NoCall
    /\ \E draw \in Draws, response \in ResponsesOf(app, REQUESTS_AVAILABLE, Responses) :
         LET current == get_current_rate(app, REQUESTS_AVAILABLE, pair, response,
                                         draw.variation, now)
         IN  last' = [op |-> "predict_rate", pair |-> pair, days |-> days_ahead,
                      result |-> predict_rate(app, current, days_ahead,
                                              draw.shape, draw.noise)]
    /\ UNCHANGED <<previous, threads, app, REQUESTS_AVAILABLE, models, trainCalls, now>>

\* the loop of predict_multi_day: the predictions from day on.  A step asks
\* the provider at the time of the reading before it and stamps its date at
\* its own reading.
RECURSIVE MultiDayLoop(_, _, _, _, _, _, _, _)
MultiDayLoop(a, requests, pair, day, days, draws, responses, reads) ==
    IF day >= days + 1
    THEN << >>
    ELSE LET current == get_current_rate(a, requests, pair, responses[day],
                                         draws[day].variation, reads[day])
             prediction == predict_rate(a, current, day,
                                        draws[day].shape, draws[day].noise)
         IN  <<prediction @@ [date |-> TargetDate(reads[day + 1], day)]>>
             \o MultiDayLoop(a, requests, pair, day + 1, days, draws,
                             responses, reads)

\* predict_multi_day(pair, days); a step that raises ends the call
predict_multi_day(a, requests, pair, days, draws, responses, reads) ==
    LET predictions == MultiDayLoop(a, requests, pair, 1, days, draws,
                                    responses, reads)
    IN  IF \E i \in 1..Len(predictions) : predictions[i].raised
        THEN [raised |-> TRUE, predictions |-> << >>]
        ELSE [raised |-> FALSE, predictions |-> predictions]

\* the readings of the clock during predict_multi_day: the time of the call
\* and one reading per step
MultiReads(clock, days) ==
    {[i \in 1..Max(days, 0) + 1 |-> IF i = 1 THEN clock ELSE r[i - 1]] :
        r \in ClockReads(clock, days)}

PredictMultiDay(pair, days) ==
    /\ app \in HeuristicApps
    /\ last = NoCall
    /\ \E draws \in [1..Max(days, 0) -> MultiDraws],
          responses \in [1..Max(days, 0) ->
                           ResponsesOf(app, REQUESTS_AVAILABLE, MultiResponses)],
          reads \in MultiReads(now, days) :
         /\ last' = [op |-> "predict_multi_day", pair |-> pair, days |-> days,
                     result |-> predict_multi_day(app, REQUESTS_AVAILABLE, pair,
                                                  days, draws, responses, reads)]
         /\ now' = reads[Len(reads)]
    /\ UNCHANGED <<previous, threads, app, REQUESTS_AVAILABLE, models, trainCalls>>

\* the prices and changes of the steps of a forecast
StepPrices(predictions) ==
    [i \in 1..Len(predictions) |->
        [predicted_price |-> predictions[i].predicted_price,
         change |-> predictions[i].change,
         change_rate |-> predictions[i].change_rate]]

\* what a caller keeps of a call: of a forecast with steps, the entry it came
\* from, its horizon and its prices
Taken(call, before) ==
    IF call.op = "predict_future" /\ call.result # None /\ call.days >= 1
    THEN [op |-> "predict_future", symbol |-> call.symbol, run |-> call.run,
          days |-> call.days, prices |-> StepPrices(call.result.predictions)]
    ELSE before

\* the caller has taken the answer of the last call
Return ==
    /\ last # NoCall
    /\ last' = NoCall
    /\ previous' = Taken(last, previous)
    /\ UNCHANGED <<threads, app, REQUESTS_AVAILABLE, models, trainCalls, now>>

\* the wall clock moves on between calls
Tick ==
    /\ last = NoCall
    /\ now < MaxClock
    /\ now' = now + 1
    /\ UNCHANGED <<previous, threads, app, REQUESTS_AVAILABLE, models, trainCalls, last>>

\* the state every program starts in
InitState ==
    /\ models = << >>
    /\ trainCalls = 0
    /\ now = 0
    /\ last = NoCall
    /\ previous = NoCall
    /\ threads = << >>

ModelInit ==
    /\ app \in ModelApps
    /\ REQUESTS_AVAILABLE = FALSE
    /\ InitState

HeuristicInit ==
    /\ app \in HeuristicApps
    /\ REQUESTS_AVAILABLE \in (IF app = "phase2_1" THEN BOOLEAN ELSE {FALSE})
    /\ InitState

ModelNext ==
    \/ \E sym \in Symbols : TrainModel(sym)
    \/ \E sym \in Symbols, days \in Horizons : PredictFutureMiss(sym, days)
    \/ \E sym \in Symbols, days \in Horizons : PredictFutureHit(sym, days)
    \/ Return
    \/ Tick

HeuristicNext ==
    \/ \E pair \in Pairs, days_ahead \in DaysAhead : PredictRate(pair, days_ahead)
    \/ \E pair \in Pairs, days \in Horizons : PredictMultiDay(pair, days)
    \/ Return
    \/ Tick

\* the longest rate sequence handed to calculate_technical_indicators
MaxRates == 5

\* the rates such a sequence is made of
RateValues == {0, 10800, 10900}

RECURSIVE SeqsUpTo(_, _)
SeqsUpTo(S, n) ==
    IF n = 0 THEN {<< >>}
    ELSE LET shorter == SeqsUpTo(S, n - 1)
         IN  shorter \cup {Append(q, x) : q \in {r \in shorter : Len(r) = n - 1},
                                          x \in S}

\* a finer unit for rates that differ beyond the fourth decimal
FineUnit == 1000 * 1000

\* the lengths of the longer series
SeriesLengths == {10, 12, 60}

\* rate series given at the unit they are counted in
RatesAt(S, unit) == {[rates |-> r, unit |-> unit] : r \in S}

\* the sequences calculate_technical_indicators is applied to: every short
\* one, the simulated histories of predict_rate, series that rise by 0.01
\* and by 0.000001 a step from 150 and series that stay at 150
RateInputs ==
    RatesAt(SeqsUpTo(RateValues, MaxRates), 10000)
        \cup RatesAt({HistoricalRates(SimulatedRate(pair, 20000), shape, 1) :
                        pair \in Pairs, shape \in Shapes}, 10000)
        \cup RatesAt({[i \in 1..n |-> 1500000 + 100 * (i - 1)] :
                        n \in SeriesLengths}, 10000)
        \cup RatesAt({[i \in 1..n |-> 1500000] : n \in SeriesLengths}, 10000)
        \cup RatesAt({[i \in 1..n |-> 150 * FineUnit + (i - 1)] :
                        n \in SeriesLengths}, FineUnit)

\* a caller holds a rate sequence
IndicatorInit ==
    /\ app \in HeuristicApps
    /\ REQUESTS_AVAILABLE = FALSE
    /\ models = << >>
    /\ trainCalls = 0
    /\ now = 0
    /\ previous = NoCall
    /\ threads = << >>
    /\ last \in {[op |-> "rates", rates |-> r.rates, unit |-> r.unit] :
                   r \in RateInputs}

\* calculate_technical_indicators(rates), with what trend it gives predict_rate
CalculateIndicators ==
    /\ last.op = "rates"
    /\ last' = [op |-> "calculate_technical_indicators", rates |-> last.rates,
                unit |-> last.unit,
                result |-> calculate_technical_indicators(last.rates, last.unit),
                trend_factor |-> trend_factor(
                    calculate_technical_indicators(last.rates, last.unit))]
    /\ UNCHANGED <<previous, threads, app, REQUESTS_AVAILABLE, models, trainCalls, now>>

IndicatorNext == CalculateIndicators

\* calculate_technical_indicators on its own
IndicatorSpec == IndicatorInit /\ [][IndicatorNext]_vars

\* the longest horizon of a forecast from a cached model of optimized
RollDays == 5

\* a close with more decimals than the four a forecast reports
FineClose == Rat(123456, 100000)

\* the price histories behind the cached models of such forecasts: those of
\* USDJPY=X, and for EURUSD=X ones that end at FineClose with a forest that
\* answers far above, just above and far below it
TrainedHistories(sym) ==
    IF sym = "USDJPY=X"
    THEN Histories(sym)
    ELSE {[len |-> 100, close |-> FineClose,
           raw |-> RMul(FineClose, ratio), mae |-> Rat(100, 400)] :
            ratio \in {Rat(5, 4), Rat(101, 100), Rat(3, 4)}}

\* optimized after one train_model call that succeeded
RollingInit ==
    /\ app = "optimized"
    /\ REQUESTS_AVAILABLE = FALSE
    /\ trainCalls = 1
    /\ now = 0
    /\ last = NoCall
    /\ previous = NoCall
    /\ threads = << >>
    /\ \E sym \in DOMAIN currency_names \ {"EURJPY=X"} :
          \E data \in TrainedHistories(sym) :
             /\ train_model("optimized", << >>, sym, data, 1).ok
             /\ models = train_model("optimized", << >>, sym, data, 1).cache

RollingNext ==
    \/ \E sym \in DOMAIN currency_names, days \in 1..RollDays :
          PredictFutureHit(sym, days)
    \/ Return
    \/ Tick

\* forecasts of up to RollDays days from the cached model of optimized
RollingSpec == RollingInit /\ [][RollingNext]_vars

\* the decimal digits of a text
DigitValue(c) ==
    CASE c = "0" -> 0 [] c = "1" -> 1 [] c = "2" -> 2 [] c = "3" -> 3
      [] c = "4" -> 4 [] c = "5" -> 5 [] c = "6" -> 6 [] c = "7" -> 7
      [] c = "8" -> 8 [] OTHER -> 9

IsDigit(c) == c \in {"0", "1", "2", "3", "4", "5", "6", "7", "8", "9"}

\* the number a run of digits stands for, read from the left
RECURSIVE DigitsValue(_, _)
DigitsValue(text, acc) ==
    IF text = << >> THEN acc
    ELSE DigitsValue(Tail(text), acc * 10 + DigitValue(Head(text)))

\* int(text) for a text given as its characters: an optional sign and at
\* least one digit, anything else raises ValueError
ParseInt(text) ==
    LET signed == text # << >> /\ Head(text) \in {"-", "+"}
        digits == IF signed THEN Tail(text) ELSE text
    IN  IF digits = << >> \/ \E i \in 1..Len(digits) : ~IsDigit(digits[i])
        THEN [raised |-> TRUE, value |-> 0]
        ELSE [raised |-> FALSE,
              value |-> IF signed /\ Head(text) = "-"
                        THEN -DigitsValue(digits, 0)
                        ELSE DigitsValue(digits, 0)]

\* the status lines and the body a handler wrote, and where it raised
Reply(statuses, raised, body) ==
    [statuses |-> statuses, raised |-> raised, body |-> body]

\* the try block of a prediction handler: an exception while the days are
\* parsed or while the prediction is made goes to send_error(500); after
\* that send_response(200) and the headers are written, and an exception
\* while the body is written goes to the same send_error(500)
Respond(days, prediction, written) ==
    IF days.raised THEN Reply(<<500>>, "parse", None)
    ELSE IF prediction.raised THEN Reply(<<500>>, "predict", None)
    ELSE IF ~written THEN Reply(<<200, 500>>, "write", None)
    ELSE Reply(<<200>>, "none", prediction)

\* handle_single_prediction once the draws of its predict_rate call and the
\* fate of the body write are known
handle_single_prediction(a, requests, params, response, draw, clock, written) ==
    Respond(ParseInt(DictGet(params, "days", <<"1">>)),
            predict_rate(a,
                         get_current_rate(a, requests,
                                          DictGet(params, "pair", "USD/JPY"),
                                          response, draw.variation, clock),
                         ParseInt(DictGet(params, "days", <<"1">>)).value,
                         draw.shape, draw.noise),
            written)

\* handle_multi_prediction, likewise
handle_multi_prediction(a, requests, params, responses, draws, reads, written) ==
    Respond(ParseInt(DictGet(params, "days", <<"1", "0">>)),
            predict_multi_day(a, requests, DictGet(params, "pair", "USD/JPY"),
                              ParseInt(DictGet(params, "days", <<"1", "0">>)).value,
                              draws, responses, reads),
            written)

\* the days a query may carry, as the characters of the text
DayTexts == {<<"1">>, <<"2">>, <<"-", "1">>, <<"a", "b", "c">>, <<"1", ".", "5">>}

\* the parameters parse_qs finds in a query: a pair and days, a pair alone,
\* days alone
QueryParams ==
    {[pair |-> pair, days |-> days] :
        pair \in {"USD/JPY", "GBP/USD"}, days \in DayTexts}
        \cup {[pair |-> "EUR/USD"], [days |-> <<"2">>]}

\* the paths of the GET requests: the page, the two API prefixes with a
\* query, an API path without one and an unknown path
GetRequests ==
    {[path |-> p] : p \in {"/", "/index.html", "/api/predict", "/favicon.ico"}}
        \cup {[path |-> "/api/predict?", params |-> q] : q \in QueryParams}
        \cup {[path |-> "/api/predict_multi?", params |-> q] :
                 q \in {r \in QueryParams : "days" \in DOMAIN r}}

\* the horizon handle_multi_prediction passes to predict_multi_day
MultiHorizon(params) ==
    LET days == ParseInt(DictGet(params, "days", <<"1", "0">>))
    IN  IF days.raised THEN 0 ELSE Max(days.value, 0)

\* do_GET: the request is answered by the branch its path selects.  written
\* tells whether self.wfile.write(body) went through; when it raises in the
\* page branch the exception leaves do_GET.
DoGET(request) ==
    /\ app \in HeuristicApps
    /\ last = NoCall
    /\ \E written \in BOOLEAN :
         CASE request.path \in {"/", "/index.html"} ->
                /\ last' = [op |-> "do_GET", request |-> request]
                              @@ Reply(<<200>>, IF written THEN "none" ELSE "page",
                                       None)
                /\ now' = now
           [] request.path = "/api/predict?" ->
                /\ \E draw \in Draws,
                      response \in ResponsesOf(app, REQUESTS_AVAILABLE, Responses) :
                     last' = [op |-> "do_GET", request |-> request]
                               @@ handle_single_prediction(
                                      app, REQUESTS_AVAILABLE, request.params,
                                      response, draw, now, written)
                /\ now' = now
           [] request.path = "/api/predict_multi?" ->
                LET days == MultiHorizon(request.params)
                IN  \E draws \in [1..days -> MultiDraws],
                       responses \in [1..days ->
                                        ResponsesOf(app, REQUESTS_AVAILABLE,
                                                    MultiResponses)],
                       reads \in MultiReads(now, days) :
                      /\ last' = [op |-> "do_GET", request |-> request]
                                    @@ handle_multi_prediction(
                                           app, REQUESTS_AVAILABLE,
                                           request.params, responses, draws,
                                           reads, written)
                      /\ now' = reads[Len(reads)]
           [] OTHER ->
                /\ last' = [op |-> "do_GET", request |-> request]
                              @@ Reply(<<404>>, "none", None)
                /\ now' = now
    /\ UNCHANGED <<previous, threads, app, REQUESTS_AVAILABLE, models, trainCalls>>

HandlerNext ==
    \/ \E request \in GetRequests : DoGET(request)
    \/ Return
    \/ Tick

\* the HTTP server of a heuristic program answering GET requests
HandlerSpec == HeuristicInit /\ [][HandlerNext]_vars

\* the pairs the data provider is asked for: those it knows and one it
\* does not
ProviderPairs == Pairs \cup {"EUR/JPY"}

\* the draws of random.uniform(-0.02, 0.02) in _get_simulated_rate
Variations == {-20000, 0, 20000}

\* a caller is about to ask the data provider of phase2_1 for a pair, and
\* the network will answer in one of the ways of Responses
ProviderInit ==
    /\ app = "phase2_1"
    /\ REQUESTS_AVAILABLE \in BOOLEAN
    /\ models = << >>
    /\ trainCalls = 0
    /\ now = 0
    /\ previous = NoCall
    /\ threads = << >>
    /\ last \in {[op |-> "request", pair |-> pair, response |-> response,
                   variation |-> variation] :
                   pair \in ProviderPairs, response \in Responses,
                   variation \in Variations}

\* get_real_fx_rate(pair)
GetRealFxRate ==
    /\ last.op = "request"
    /\ last' = [op |-> "get_real_fx_rate", pair |-> last.pair,
                response |-> last.response,
                result |-> get_real_fx_rate(REQUESTS_AVAILABLE, last.pair,
                                            last.response, last.variation, now)]
    /\ UNCHANGED <<previous, threads, app, REQUESTS_AVAILABLE, models, trainCalls, now>>

ProviderNext == GetRealFxRate

\* the data provider on its own
ProviderSpec == ProviderInit /\ [][ProviderNext]_vars

-----------------------------------------------------------------------------
(* Two requests in predict_future at once on the shared fx_predictor of a   *)
(* model-driven program.  A request is at one of                            *)
(*   "lookup"   if symbol not in self.models                                *)
(*   "train"    train_model up to the assignment to self.models[symbol]     *)
(*   "store"    self.models[symbol] = {...}                                 *)
(*   "read"     model_info = self.models[symbol]                            *)
(*   "forecast" the loop and the result                                     *)
(*   "done"                                                                 *)

Requests == 1..2

\* a request as it enters predict_future(sym, days)
NewRequest(sym, days) ==
    [pc |-> "lookup", symbol |-> sym, days |-> days, data |-> None, run |-> 0,
     stored |-> 0, model_info |-> None, result |-> None]

\* how many stores have happened
Stores == Cardinality({u \in Requests : threads[u].stored > 0})

\* the horizons of the requests that run side by side
RequestDays == {1, MaxDays}

\* two requests have entered predict_future and the cache is empty
ConcurrentInit ==
    /\ app \in ModelApps
    /\ REQUESTS_AVAILABLE = FALSE
    /\ models = << >>
    /\ trainCalls = 0
    /\ now = 0
    /\ last = NoCall
    /\ previous = NoCall
    /\ threads \in [Requests -> {NewRequest(sym, days) :
                                   sym \in Symbols, days \in RequestDays}]

\* if symbol not in self.models
Lookup(t) ==
    /\ threads[t].pc = "lookup"
    /\ threads' = [threads EXCEPT
                     ![t].pc = IF NeedsTraining(models, threads[t].symbol)
                               THEN "train" ELSE "read"]
    /\ UNCHANGED <<previous, app, REQUESTS_AVAILABLE, models, trainCalls, now, last>>

\* train_model up to the cache assignment: fetch, features, split, fit, MAE;
\* a failure ends the request with None
Fit(t) ==
    /\ threads[t].pc = "train"
    /\ trainCalls < MaxTrain
    /\ \E data \in get_fx_data(threads[t].symbol) :
         LET fitted == train_model(app, models, threads[t].symbol, data,
                                   trainCalls + 1)
         IN  threads' = [threads EXCEPT
                           ![t].pc = IF fitted.ok THEN "store" ELSE "done",
                           ![t].data = data,
                           ![t].run = IF fitted.ok THEN trainCalls + 1 ELSE 0]
    /\ trainCalls' = trainCalls + 1
    /\ UNCHANGED <<previous, app, REQUESTS_AVAILABLE, models, now, last>>

\* self.models[symbol] = {...}, one assignment of the finished entry
Store(t) ==
    /\ threads[t].pc = "store"
    /\ models' = train_model(app, models, threads[t].symbol, threads[t].data,
                             threads[t].run).cache
    /\ threads' = [threads EXCEPT ![t].pc = "read", ![t].stored = Stores + 1]
    /\ UNCHANGED <<previous, app, REQUESTS_AVAILABLE, trainCalls, now, last>>

\* model_info = self.models[symbol]
ReadEntry(t) ==
    /\ threads[t].pc = "read"
    /\ threads' = [threads EXCEPT ![t].pc = "forecast",
                                  ![t].model_info = models[threads[t].symbol]]
    /\ UNCHANGED <<previous, app, REQUESTS_AVAILABLE, models, trainCalls, now, last>>

\* the loop of predict_future and its result, from model_info
Forecast(t) ==
    /\ threads[t].pc = "forecast"
    /\ \E reads \in ClockReads(now, threads[t].days) :
         /\ threads' = [threads EXCEPT
                          ![t].pc = "done",
                          ![t].result = ForecastFrom(app, threads[t].model_info,
                                                     threads[t].symbol,
                                                     threads[t].days, reads)]
         /\ now' = LastRead(now, threads[t].days, reads)
    /\ UNCHANGED <<previous, app, REQUESTS_AVAILABLE, models, trainCalls, last>>

ConcurrentNext ==
    \E t \in Requests :
        Lookup(t) \/ Fit(t) \/ Store(t) \/ ReadEntry(t) \/ Forecast(t)

\* two requests side by side in a model-driven program
ConcurrentSpec == ConcurrentInit /\ [][ConcurrentNext]_vars

Init == ModelInit \/ HeuristicInit

Next == ModelNext \/ HeuristicNext

\* any of the four programs
Spec == Init /\ [][Next]_vars

\* the model-driven programs
ModelSpec == ModelInit /\ [][ModelNext]_vars

\* the heuristic programs
HeuristicSpec == HeuristicInit /\ [][HeuristicNext]_vars

-----------------------------------------------------------------------------
(* The claims *)

\* the steps of the forecast predict_future returned, if it returned one
FutureSteps ==
    IF last.op = "predict_future" /\ last.result # None
    THEN last.result.predictions ELSE << >>

\* the steps predict_multi_day returned, if it returned
MultiSteps ==
    IF last.op = "predict_multi_day" /\ ~last.result.raised
    THEN last.result.predictions ELSE << >>

\* the record predict_rate returned, as a one-step forecast
RateSteps ==
    IF last.op = "predict_rate" /\ ~last.result.raised
    THEN <<last.result>> ELSE << >>

\* the change of a step of predict_future against the baseline of its clamp,
\* before rounding
StepChangeRate(s) == RDiv(RSub(s.pred_price, s.current_close), s.current_close)

C2_HeuristicClamp ==
    \A i \in 1..Len(RateSteps \o MultiSteps) :
        LET s == (RateSteps \o MultiSteps)[i]
        IN  s.days_ahead >= 1 =>
              Abs(s.predicted_rate - s.current_rate) * 10 <= s.current_rate

\* C3: when get_fx_data yields no history, predict_future still returns a
\* forecast of exactly `days` steps.
C3_FallbackOnUnavailable ==
    (last.op = "predict_future" /\ ~last.hit /\ ~last.fetched /\ last.days >= 1)
        => /\ last.result # None
           /\ Len(last.result.predictions) = last.days

\* C4: a predict_future call for a symbol whose model is cached calls
\* train_model not at all, leaves the cache as it is and forecasts from the
\* cached model.
C4_CacheHitSkipsTraining ==
    [][(last = NoCall /\ last'.op = "predict_future"
          /\ last'.symbol \in DOMAIN models)
         => /\ trainCalls' = trainCalls
            /\ models' = models
            /\ last'.hit
            /\ last'.run = models[last'.symbol].model.run]_vars

\* C4 witness: a forecast served from the cache after an earlier call trained.
C4_Witness ==
    /\ last.op = "predict_future"
    /\ last.hit
    /\ last.result # None
    /\ trainCalls >= 1

\* C5: a forecast that succeeds has exactly `days` steps for days >= 1 and
\* none for days <= 0, and step i carries the day offset i.
C5_StepCountAndOrder ==
    /\ (last.op = "predict_future" /\ last.result # None)
         => /\ Len(FutureSteps) = Max(last.days, 0)
            /\ \A i \in 1..Len(FutureSteps) : FutureSteps[i].day = i
    /\ (last.op = "predict_multi_day" /\ ~last.result.raised)
         => /\ Len(MultiSteps) = Max(last.days, 0)
            /\ \A i \in 1..Len(MultiSteps) : MultiSteps[i].days_ahead = i

\* C5 witness: a forecast over more than one day.
C5_Witness ==
    /\ last.op \in {"predict_future", "predict_multi_day"}
    /\ Len(FutureSteps \o MultiSteps) >= 2

\* C6: the target dates of consecutive steps of one forecast are one
\* calendar day apart.
C6_DatesOneDayApart ==
    \A i \in 1..Len(FutureSteps \o MultiSteps) - 1 :
        (FutureSteps \o MultiSteps)[i + 1].date
            = (FutureSteps \o MultiSteps)[i].date + 1

\* C7: for a horizon k >= 1 the confidence is 85 - 2k while that is at least
\* 60 and 60 from then on, and within a multi-day forecast it never rises
\* from one day to the next.
C7_ConfidenceMonotone ==
    /\ \A i \in 1..Len(RateSteps \o MultiSteps) :
         LET s == (RateSteps \o MultiSteps)[i]
         IN  s.days_ahead >= 1 =>
               /\ s.confidence >= 60
               /\ s.confidence = (IF 85 - 2 * s.days_ahead >= 60
                                  THEN 85 - 2 * s.days_ahead ELSE 60)
    /\ \A i \in 1..Len(MultiSteps) - 1 :
         MultiSteps[i].confidence >= MultiSteps[i + 1].confidence

\* C7 witness: a prediction far enough ahead for the floor to hold the
\* confidence up.
C7_Witness ==
    /\ Len(RateSteps) = 1
    /\ 85 - 2 * RateSteps[1].days_ahead < 60
    /\ RateSteps[1].confidence = 60

\* C8: the confidence of every prediction predict_rate returns lies in
\* 0..100, whatever days_ahead it was called with.
C8_ConfidenceRange ==
    \A i \in 1..Len(RateSteps) : RateSteps[i].confidence \in 0..100

\* C9: calculate_technical_indicators divides by no zero and returns an RSI
\* within [0, 100].
C9_RsiBound ==
    last.op = "calculate_technical_indicators"
        => /\ ~last.result.raised
           /\ last.result.rsi >= 0
           /\ last.result.rsi <= 100 * 100

\* C9 witness: indicators of a sequence of at least five rates that rises
\* and never falls, so that no loss is averaged.
C9_Witness ==
    /\ last.op = "calculate_technical_indicators"
    /\ Len(last.rates) >= 5
    /\ \A i \in 1..Len(last.rates) - 1 : last.rates[i] <= last.rates[i + 1]
    /\ last.rates[1] < last.rates[Len(last.rates)]

\* C10: a train_model call that is left with fewer than 30 feature rows
\* fails and writes no cache entry.
C10_TrainingFloor ==
    (last.op = "train_model" /\ last.fetched /\ last.rows < 30)
        => /\ last.result = FALSE
           /\ ~(last.symbol \in DOMAIN models
                  /\ models[last.symbol].model.run = trainCalls)

\* C11: a sequence of fewer than five rates is padded with its own first
\* value, so calculate_technical_indicators returns that value as ma5 and
\* as ma10.
C11_PadsWithOwnValue ==
    (last.op = "calculate_technical_indicators" /\ Len(last.rates) \in 1..4)
        => /\ ~last.result.raised
           /\ last.result.ma5 = Round(Rat(last.rates[1], last.unit), 4)
           /\ last.result.ma10 = Round(Rat(last.rates[1], last.unit), 4)

\* C12: the target train_model pairs with a feature row is the close of the
\* day after that row, and there are as many targets as feature rows.
C12_NextStepTarget ==
    (last.op = "train_model" /\ last.fetched)
        => /\ Len(last.training.X) = Len(last.training.y)
           /\ \A i \in 1..Len(last.training.X) :
                last.training.y[i] = last.training.X[i] + 1

\* C13: train_model trains on the first floor(0.8 n) of the n feature rows
\* and validates on the rest, in their order, every training row earlier
\* than every validation row.
C13_ChronologicalSplit ==
    (last.op = "train_model" /\ last.fetched)
        => LET X == last.training.X
               train == last.training.X_train
               test == last.training.X_test
           IN  /\ Len(train) = (8 * Len(X)) \div 10
               /\ train \o test = X
               /\ \A i \in 1..Len(X) - 1 : X[i] < X[i + 1]
               /\ \A i \in 1..Len(train), j \in 1..Len(test) : train[i] < test[j]

\* C13 witness: a training on a number of rows that 0.8 does not split evenly.
C13_Witness ==
    /\ last.op = "train_model"
    /\ last.fetched
    /\ last.result
    /\ Len(last.training.X) % 5 # 0
    /\ Len(last.training.X_test) >= 2

\* a call of train_model, alone or from predict_future, that has just
\* returned in the next state
Trained == last = NoCall /\ last'.op \in {"train_model", "predict_future"}
              /\ trainCalls' = trainCalls + 1

\* ... and whose fetch or fit failed
TrainingFailed == Trained /\ (~last'.fetched \/ (8 * last'.rows) \div 10 = 0)

\* C14: when the fetch or the fit of a training fails, train_model returns
\* False, predict_future returns None, and the cache is as it was before the
\* call.
C14_NonFatalFailure ==
    [][TrainingFailed
         => /\ models' = models
            /\ last'.op = "train_model" => last'.result = FALSE
            /\ last'.op = "predict_future" => last'.result = None]_vars

\* C14 witness: a forecast request whose history was too short to fit, with
\* an earlier model still cached.
C14_Witness ==
    /\ last.op = "predict_future"
    /\ ~last.hit
    /\ last.fetched
    /\ last.rows <= 1
    /\ last.result = None
    /\ DOMAIN models # {}

\* C15: a step changes the entry of a symbol only by a successful training of
\* that symbol, which stores the model of that run; it removes no entry, and
\* a successful training leaves the entries of the other symbols alone.
C15_EntryReplacement ==
    [][/\ DOMAIN models \subseteq DOMAIN models'
       /\ \A s \in DOMAIN models' :
            (s \notin DOMAIN models \/ models'[s] # models[s])
                => /\ Trained /\ ~TrainingFailed
                   /\ last'.symbol = s
                   /\ models'[s].model.run = trainCalls'
       /\ (Trained /\ ~TrainingFailed)
            => /\ last'.symbol \in DOMAIN models'
               /\ models'[last'.symbol].model.run = trainCalls']_vars

\* C15 witness: a cached symbol trained again, its entry now that of the
\* second run.
C15_Witness ==
    /\ last.op = "train_model"
    /\ last.cached
    /\ last.result
    /\ trainCalls = 2
    /\ models[last.symbol].model.run = 2

\* the requests that have stored an entry for sym
Storers(sym) ==
    {u \in Requests : threads[u].symbol = sym /\ threads[u].stored > 0}

\* C16: with two requests side by side, the cache holds for a symbol the
\* entry of the request that stored last, and the entry a request forecasts
\* from has its model, features, MAE, last row and last close from one
\* training run.
C16_ConcurrentMiss ==
    /\ \A sym \in Symbols :
         IF Storers(sym) = {}
         THEN sym \notin DOMAIN models
         ELSE LET w == CHOOSE u \in Storers(sym) :
                           \A v \in Storers(sym) :
                               threads[v].stored <= threads[u].stored
              IN  /\ sym \in DOMAIN models
                  /\ models[sym].model.run = threads[w].run
                  /\ models[sym].last_close = threads[w].data.close
    /\ \A t \in Requests :
         threads[t].pc \in {"forecast", "done"} /\ threads[t].model_info # None
            => \E u \in Storers(threads[t].symbol) :
                  LET e == threads[t].model_info
                  IN  /\ e.model = [run |-> threads[u].run,
                                    raw |-> threads[u].data.raw]
                      /\ e.features = feature_columns(app)
                      /\ e.mae = threads[u].data.mae
                      /\ e.last_data = threads[u].data.len
                      /\ e.last_close = threads[u].data.close
    /\ \A t \in Requests :
         threads[t].pc = "done" /\ threads[t].result # None
            => /\ threads[t].result.current_price
                    = Round(threads[t].model_info.last_close, 4)
               /\ threads[t].result.mae = Round(threads[t].model_info.mae, 4)
               /\ Len(threads[t].result.predictions) = threads[t].days

\* C16 witness: both requests missed the same symbol, both trained on
\* different histories and stored, and the one that stored first has
\* forecast from the entry of the other.
C16_Witness ==
    /\ \A t \in Requests : threads[t].pc = "done" /\ threads[t].result # None
    /\ threads[1].symbol = threads[2].symbol
    /\ threads[1].stored = 1
    /\ threads[2].stored = 2
    /\ threads[1].data # threads[2].data
    /\ threads[1].model_info.model.run = threads[2].run

\* the forecast in hand comes from the same cached entry, over the same
\* horizon, as the one the caller took before
SameEntryAgain ==
    /\ last.op = "predict_future"
    /\ last.result # None
    /\ previous # NoCall
    /\ previous.symbol = last.symbol
    /\ previous.run = last.run
    /\ previous.days = last.days

\* C17: predict_future on a cached symbol leaves the cache as it is, and two
\* forecasts from the same cached entry over the same horizon have the same
\* predicted prices and changes.
C17_CachedModelImmutable ==
    /\ [](SameEntryAgain
            => StepPrices(last.result.predictions) = previous.prices)
    /\ [][(last = NoCall /\ last'.op = "predict_future" /\ last'.hit)
            => models' = models]_vars

\* C17 witness: a second forecast of several steps from the same cached entry
\* of the rolling-baseline program, whose model answers beyond the ceiling.
C17_Witness ==
    /\ SameEntryAgain
    /\ last.hit
    /\ last.days >= 2
    /\ app = "optimized"
    /\ last.result.predictions[1].predicted_price
         # last.result.predictions[2].predicted_price

\* the change and the percentage change of step s are those of its price
\* against base
ChangesAgainst(s, base) ==
    /\ s.change = Round(RSub(s.pred_price, base), 4)
    /\ s.change_rate
         = Round(RMul(RDiv(RSub(s.pred_price, base), base), RInt(100)), 2)

\* C18 as claimed: every step of a forecast reports its change and its
\* percentage change against the current price of the same result.
C18_ChangeAgainstCurrentPrice ==
    \A i \in 1..Len(FutureSteps) :
        /\ last.result.current_price
             = Round(models[last.symbol].last_close, 4)
        /\ ChangesAgainst(FutureSteps[i], models[last.symbol].last_close)

\* C18 amended: the fixed-baseline program reports every step against the
\* current price of the result; the rolling-baseline program reports the
\* first step against it and every later step against the predicted price of
\* the step before.
C18_ChangeAgainstBaseline ==
    \A i \in 1..Len(FutureSteps) :
        /\ last.result.current_price
             = Round(models[last.symbol].last_close, 4)
        /\ ChangesAgainst(FutureSteps[i],
                          IF app = "final" \/ i = 1
                          THEN models[last.symbol].last_close
                          ELSE FutureSteps[i - 1].pred_price)

\* C18 witness: a forecast of the rolling-baseline program whose second step
\* moves on from the first.
C18_Witness ==
    /\ app = "optimized"
    /\ Len(FutureSteps) >= 2
    /\ FutureSteps[2].pred_price # FutureSteps[1].pred_price
    /\ FutureSteps[1].pred_price # models[last.symbol].last_close

\* the indicators in hand are those of a strictly increasing series of at
\* least ten rates
RisingSeries ==
    /\ last.op = "calculate_technical_indicators"
    /\ Len(last.rates) >= 10
    /\ \A i \in 1..Len(last.rates) - 1 : last.rates[i] < last.rates[i + 1]

\* C19: for a strictly increasing series of at least ten rates the heuristic
\* finds ma5 > ma10 and a trend multiplier above 1, and without the random
\* term the predicted rate does not fall from one day offset to the next.
C19_RisingSeriesTrend ==
    RisingSeries
        => /\ ~last.result.raised
           /\ last.result.ma5 > last.result.ma10
           /\ last.trend_factor > One
           /\ \A d \in 1..MaxDays :
                MulMicro(last.result.ma5, PowMicro(last.trend_factor, d))
                    <= MulMicro(last.result.ma5, PowMicro(last.trend_factor, d + 1))

\* the history behind step s stayed at its current rate
FlatSeries(s) ==
    \A i \in 1..Len(s.historical_rates) : s.historical_rates[i] = s.current_rate

C21_AveragesFloored ==
    last.op = "calculate_technical_indicators" /\ ~last.result.raised =>
        /\ last.result.avg_gain.n > 0
        /\ last.result.avg_loss.n > 0
        /\ last.result.rs = RDiv(last.result.avg_gain, last.result.avg_loss)


\* the rates of the payload a pair is computed from
NeededRates(pair) ==
    CASE pair = "USD/JPY" -> {"JPY"}
      [] pair = "EUR/JPY" -> {"JPY", "EUR"}
      [] pair = "EUR/USD" -> {"EUR"}
      [] OTHER -> {}

\* the payload has a rate of the pair missing
MissingRates(data, pair) ==
    \/ "rates" \notin DOMAIN data
    \/ \E k \in NeededRates(pair) : k \notin DOMAIN data.rates

\* the payload has a rate of the pair at zero
ZeroRates(data, pair) ==
    /\ "rates" \in DOMAIN data
    /\ \E k \in NeededRates(pair) :
          /\ k \in DOMAIN data.rates
          /\ Numeric(data.rates[k])
          /\ data.rates[k].n = 0

\* the provider outcomes that are failures: no HTTP library, a network
\* exception, a status other than 200, a body that cannot be parsed, a
\* payload with missing or zero rates
ProviderFailed ==
    \/ ~REQUESTS_AVAILABLE
    \/ last.response.kind \in {"exception", "status", "unparsable"}
    \/ /\ last.response.kind = "payload"
       /\ \/ MissingRates(last.response.data, last.pair)
          \/ ZeroRates(last.response.data, last.pair)

\* C22: get_real_fx_rate always returns a record with a numeric rate and a
\* source of API or Simulated, and every failure outcome of the provider
\* gives the source Simulated
C22_ProviderTolerance ==
    last.op = "get_real_fx_rate" =>
        /\ last.result.rate \in Int
        /\ last.result.source \in {"API", "Simulated"}
        /\ ProviderFailed => last.result.source = "Simulated"


\* the number of feature names of the profile of a program
ProfileSize(a) == IF a = "final" THEN 7 ELSE 17

\* C23: every step of a forecast hands the model a row built from exactly
\* the feature names stored with the cached entry, in their order, 7 names
\* in final and 17 in optimized; and every cached entry holds that many
C23_FeatureListConsistent ==
    /\ \A s \in DOMAIN models :
          /\ Len(models[s].features) = ProfileSize(app)
          /\ Cardinality({models[s].features[i] :
                             i \in 1..Len(models[s].features)})
                = ProfileSize(app)
    /\ \A i \in 1..Len(FutureSteps) :
          /\ FutureSteps[i].latest_data.names = models[last.symbol].features
          /\ FutureSteps[i].latest_data.row = models[last.symbol].last_data

\* a forecast of the full profile with two steps
C23_Witness ==
    /\ app = "optimized"
    /\ Len(FutureSteps) = 2
    /\ Len(FutureSteps[2].latest_data.names) = 17


C25_CachedModelForecasts ==
    /\ last.op = "predict_future"
    /\ last.days >= 1
    /\ last.symbol \in DOMAIN models
    => last.result # None


\* the raw answer of the model behind the forecast of the last call
RawPrediction == ModelPredict(models[last.symbol].model)

\* the price a step of the forecast started from: the last close, or the
\* predicted price of the step before
Baseline(i) ==
    IF i = 1 THEN models[last.symbol].last_close
    ELSE FutureSteps[i - 1].pred_price

\* the first step is at least as near the raw answer as the second, on the
\* same side
Toward(x, y, raw) ==
    \/ RLe(x, y) /\ RLe(y, raw)
    \/ RLe(raw, y) /\ RLe(y, x)

C27_SingleBaseline ==
    \A i \in 1..Len(MultiSteps), j \in 1..Len(MultiSteps) :
        /\ MultiSteps[i].current_rate = MultiSteps[j].current_rate
        /\ app = "phase2_1" =>
              MultiSteps[i].current_data_source = MultiSteps[j].current_data_source


\* C28: a record labelled API carries a rate computed from the values of
\* the provider's response: the pair is one the parser knows and the payload
\* holds the rates it needs; a built-in fallback constant is never labelled
\* API
C28_SourceLabelHonest ==
    last.op = "get_real_fx_rate" /\ last.result.source = "API" =>
        /\ last.response.kind = "payload"
        /\ NeededRates(last.pair) # {}
        /\ ~MissingRates(last.response.data, last.pair)


\* C29: predict_rate returns a complete prediction record without raising
\* for every rate record the provider can return, one labelled API with a
\* rate of zero included, and every pair
C29_PredictRateTotal ==
    last.op = "predict_rate" =>
        /\ ~last.result.raised
        /\ {"current_rate", "predicted_rate", "change", "change_percent",
            "confidence", "indicators", "days_ahead"} \subseteq DOMAIN last.result


\* C30: every GET sends exactly one status, 200, 404 or 500; a request
\* whose parameters cannot be parsed or whose prediction raises gets a 500
\* and no 200; and no 500 follows a 200 status line of the same request
C30_OneResponse ==
    last.op = "do_GET" =>
        /\ Len(last.statuses) = 1
        /\ last.statuses[1] \in {200, 404, 500}
        /\ last.raised \in {"parse", "predict"} => last.statuses = <<500>>
        /\ \A i \in 1..Len(last.statuses), j \in 1..Len(last.statuses) :
              i < j => ~(last.statuses[i] = 200 /\ last.statuses[j] = 500)

=============================================================================
